---- MODULE Spec2Model ----
(***************************************************************************)
(* Batch LLM-as-judge pipeline of the hallucinations/ scripts:             *)
(*   submit_truthqa_batches.py  (submitter)                                *)
(*   poll_truth_p2.py, poll_truthqa_batches.py (two poller/merger scripts) *)
(*   utils.py (append_jsonl)                                               *)
(*                                                                         *)
(* Texts are sequences of tokens.  A token is either one character or one  *)
(* of the words the regular expressions look for (a run of word            *)
(* characters).  Names (model, setting, custom_id) are sequences of        *)
(* characters; SQ, DQ, BACKTICK, ARROW and BOM name the single quote, the  *)
(* double quote, the backtick, the arrow and the byte order mark.          *)
(* Temperatures are integers (tenths).                                     *)
(***************************************************************************)
EXTENDS Integers, Sequences, FiniteSets, TLC

VARIABLES
  answers,        \* the answers file: sequence of answer rows
  log,            \* the evaluation log (output file): sequence of lines
  limit,          \* --limit of the submitter
  script,         \* which poller script is used for the merge runs
  subPc,          \* submitter: position in the script
  requests,       \* submitter: the list requests
  tempFile,       \* TEMP_FILE on disk (NoFile when absent)
  batches,        \* number of batch jobs created so far
  batchInput,     \* input file of the current batch job
  jobStatus,      \* status of the current batch job at the provider
  batchOutput,    \* output file of the current batch job
  pollerPc,       \* poller: position in the script
  answers_index,  \* poller: dict (qid, model, setting) -> row
  already_done,   \* poller: set returned by load_done
  job,            \* poller: status of the last retrieved job object
  lines,          \* poller: downloaded result lines (empty before)
  idx,            \* poller: index of the next line of the merge loop
  added,          \* poller: the counter added
  eval_txt,       \* poller: eval_txt of the last processed line
  label,          \* poller: label of the last processed line
  abortReason,    \* poller: exception that ended the run ("" if none)
  logAtStart,     \* history: the log when the current poller run started
  runs            \* history: poller runs started for the current batch

vars == <<answers, log, limit, script, subPc, requests, tempFile, batches,
          batchInput, jobStatus, batchOutput, pollerPc, answers_index,
          already_done, job, lines, idx, added, eval_txt, label,
          abortReason, logAtStart, runs>>

(***************************************************************************)
(* Bounds                                                                  *)
(***************************************************************************)
MaxTextLen == 5
MaxAnswers == 3
MaxLimit == 3
MaxBatches == 1
MaxRuns == 2

(***************************************************************************)
(* Tokens and character classes of Python's re module                      *)
(***************************************************************************)
None == <<"<None>">>
AttributeError == <<"<AttributeError>">>

\* str.lower() on a token
Lower(t) ==
  CASE t = "Truthful" -> "truthful"
    [] t = "Hallucinated" -> "hallucinated"
    [] t = "LABEL" -> "label"
    [] t = "X" -> "x"
    [] OTHER -> t

LowerSeq(s) == [i \in 1..Len(s) |-> Lower(s[i])]

\* \w : letters, digits and underscore
IsWord(t) ==
  t \in {"Truthful", "truthful", "Hallucinated", "hallucinated",
         "LABEL", "label", "x", "X", "_", "0"}

\* \s
IsSpace(t) == t \in {" ", "\n"}

\* truthful or hallucinated under re.I
IsKeyword(t) == Lower(t) \in {"truthful", "hallucinated"}

\* the word label under re.I
IsLabelWord(t) == Lower(t) = "label"

\* [:=]
IsSep(t) == t \in {":", "="}

\* the quote class of the label-line pattern
IsQuote(t) == t \in {"SQ", "DQ", "BACKTICK"}

\* the decoration class of the arrow pattern
IsDeco(t) == t \in {"*", "_", "BACKTICK", "~"}

\* \b between position i-1 and i of txt (1-based, i in 1..Len+1)
WordAt(txt, i) == i >= 1 /\ i <= Len(txt) /\ IsWord(txt[i])
Boundary(txt, i) == WordAt(txt, i - 1) # WordAt(txt, i)

\* index of the first position >= i whose token is not in class C (greedy X*)
RECURSIVE SkipSpace(_, _)
SkipSpace(txt, i) ==
  IF i <= Len(txt) /\ IsSpace(txt[i]) THEN SkipSpace(txt, i + 1) ELSE i

RECURSIVE SkipQuote(_, _)
SkipQuote(txt, i) ==
  IF i <= Len(txt) /\ IsQuote(txt[i]) THEN SkipQuote(txt, i + 1) ELSE i

RECURSIVE SkipDeco(_, _)
SkipDeco(txt, i) ==
  IF i <= Len(txt) /\ IsDeco(txt[i]) THEN SkipDeco(txt, i + 1) ELSE i

\* keyword followed by a word boundary at position k: the group, or None
KeywordAt(txt, k) ==
  IF k <= Len(txt) /\ IsKeyword(txt[k]) /\ Boundary(txt, k + 1)
  THEN <<Lower(txt[k])>> ELSE None

\* the label-line pattern (label, spaces, : or =, spaces, quotes, spaces,
\* keyword, word boundary) anchored at i
LabelLineAt(txt, i) ==
  IF ~(IsLabelWord(txt[i]) /\ Boundary(txt, i)) THEN None
  ELSE LET s == SkipSpace(txt, i + 1) IN
       IF ~(s <= Len(txt) /\ IsSep(txt[s])) THEN None
       ELSE KeywordAt(txt, SkipSpace(txt, SkipQuote(txt, SkipSpace(txt, s + 1))))

\* the arrow pattern (arrow, spaces, decoration, spaces, keyword, word
\* boundary) anchored at i
ArrowAt(txt, i) ==
  IF txt[i] # "ARROW" THEN None
  ELSE KeywordAt(txt, SkipSpace(txt, SkipDeco(txt, SkipSpace(txt, i + 1))))

\* standalone keyword (boundary, keyword, boundary) anchored at i
WordReAt(txt, i) ==
  IF Boundary(txt, i) THEN KeywordAt(txt, i) ELSE None

\* re.search: the leftmost anchor with a match
RECURSIVE SearchLabelLine(_, _)
SearchLabelLine(txt, i) ==
  IF i > Len(txt) THEN None
  ELSE IF LabelLineAt(txt, i) # None THEN LabelLineAt(txt, i)
  ELSE SearchLabelLine(txt, i + 1)

RECURSIVE SearchArrow(_, _)
SearchArrow(txt, i) ==
  IF i > Len(txt) THEN None
  ELSE IF ArrowAt(txt, i) # None THEN ArrowAt(txt, i)
  ELSE SearchArrow(txt, i + 1)

RECURSIVE SearchWord(_, _)
SearchWord(txt, i) ==
  IF i > Len(txt) THEN None
  ELSE IF WordReAt(txt, i) # None THEN WordReAt(txt, i)
  ELSE SearchWord(txt, i + 1)

(***************************************************************************)
(* str.strip / lstrip                                                      *)
(***************************************************************************)
RECURSIVE LStrip(_)
LStrip(s) == IF s # <<>> /\ IsSpace(Head(s)) THEN LStrip(Tail(s)) ELSE s

RECURSIVE RStrip(_)
RStrip(s) ==
  IF s # <<>> /\ IsSpace(s[Len(s)]) THEN RStrip(SubSeq(s, 1, Len(s) - 1)) ELSE s

Strip(s) == RStrip(LStrip(s))

RECURSIVE LStripBOM(_)
LStripBOM(s) == IF s # <<>> /\ Head(s) = "BOM" THEN LStripBOM(Tail(s)) ELSE s

\* content.lstrip(BOM).strip()
CleanContent(content) == Strip(LStripBOM(content))

(***************************************************************************)
(* json.loads on a judge text: objects with at most one member whose value *)
(* is a string or a number.  Any other text either fails to parse or       *)
(* parses to a non-dict; extract_label treats both alike.                  *)
(***************************************************************************)
\* position after a JSON string starting at i (txt[i] is the opening quote),
\* 0 when the string is not closed or holds a raw control character
RECURSIVE StringEnd(_, _)
StringEnd(txt, i) ==
  IF i > Len(txt) THEN 0
  ELSE IF txt[i] = "DQ" THEN i + 1
  ELSE IF txt[i] = "\n" THEN 0
  ELSE StringEnd(txt, i + 1)

NotDict == [dict |-> FALSE, key |-> <<>>, isStr |-> FALSE, val |-> <<>>, members |-> 0]

json_loads(txt) ==
  LET a == SkipSpace(txt, 1) IN
  IF ~(a <= Len(txt) /\ txt[a] = "{") THEN NotDict
  ELSE
  LET b == SkipSpace(txt, a + 1) IN
  IF b <= Len(txt) /\ txt[b] = "}"
  THEN IF SkipSpace(txt, b + 1) = Len(txt) + 1
       THEN [dict |-> TRUE, key |-> <<>>, isStr |-> FALSE, val |-> <<>>, members |-> 0]
       ELSE NotDict
  ELSE
  IF ~(b <= Len(txt) /\ txt[b] = "DQ") THEN NotDict
  ELSE
  LET ke == StringEnd(txt, b + 1) IN
  IF ke = 0 THEN NotDict
  ELSE
  LET c == SkipSpace(txt, ke) IN
  IF ~(c <= Len(txt) /\ txt[c] = ":") THEN NotDict
  ELSE
  LET d == SkipSpace(txt, c + 1) IN
  IF d > Len(txt) THEN NotDict
  ELSE
  LET isStr == txt[d] = "DQ"
      ve == IF isStr THEN StringEnd(txt, d + 1)
            ELSE IF txt[d] = "0" THEN d + 1 ELSE 0
  IN
  IF ve = 0 THEN NotDict
  ELSE
  LET e == SkipSpace(txt, ve) IN
  IF e <= Len(txt) /\ txt[e] = "}" /\ SkipSpace(txt, e + 1) = Len(txt) + 1
  THEN [dict |-> TRUE,
        key |-> SubSeq(txt, b + 1, ke - 2),
        isStr |-> isStr,
        val |-> IF isStr THEN SubSeq(txt, d + 1, ve - 2) ELSE <<txt[d]>>,
        members |-> 1]
  ELSE NotDict

(***************************************************************************)
(* extract_label of the two poller scripts                                 *)
(***************************************************************************)
\* extract_label of poll_truth_p2.py with the arrow tried before the label line
extract_label_p2_arrow_first(txt) ==
  LET maybe_json == json_loads(txt) IN
  IF maybe_json.dict /\ maybe_json.members = 1 /\ maybe_json.key = <<"label">>
  THEN IF maybe_json.isStr THEN LowerSeq(Strip(maybe_json.val))
       ELSE AttributeError
  ELSE IF SearchArrow(txt, 1) # None THEN SearchArrow(txt, 1)
  ELSE IF SearchLabelLine(txt, 1) # None THEN SearchLabelLine(txt, 1)
  ELSE None

\* poll_truth_p2.py: JSON label field, then label line, then arrow
extract_label_p2(txt) ==
  LET maybe_json == json_loads(txt) IN
  IF maybe_json.dict /\ maybe_json.members = 1 /\ maybe_json.key = <<"label">>
  THEN IF maybe_json.isStr THEN LowerSeq(Strip(maybe_json.val))
       ELSE AttributeError
  ELSE IF SearchLabelLine(txt, 1) # None THEN SearchLabelLine(txt, 1)
  ELSE IF SearchArrow(txt, 1) # None THEN SearchArrow(txt, 1)
  ELSE None

\* poll_truthqa_batches.py: arrow, then first standalone keyword
extract_label_v3(txt) ==
  IF SearchArrow(txt, 1) # None THEN SearchArrow(txt, 1)
  ELSE IF SearchWord(txt, 1) # None THEN SearchWord(txt, 1)
  ELSE None

extract_label(s, txt) ==
  IF s = "poll_truth_p2" THEN extract_label_p2(txt) ELSE extract_label_v3(txt)

Scripts == {"poll_truth_p2", "poll_truthqa_batches"}

(***************************************************************************)
(* Answer rows, custom ids, log lines                                      *)
(***************************************************************************)
Row(q, m, s, t, a) ==
  [qid |-> q, model |-> m, setting |-> s, temperature |-> t, answer |-> a]

\* rows an answers file may hold: two settings of one model at the same
\* temperature, a two-digit question id, a model name with a bar in it
AnswerRows ==
  << Row(7, <<"a">>, <<"g">>, 0, "ans1"),
     Row(7, <<"a">>, <<"s">>, 0, "ans2"),
     Row(10, <<"a">>, <<"g">>, 0, "ans3"),
     Row(7, <<"a", "|", "b">>, <<"g">>, 7, "ans4") >>

SeqsUpTo(S, n) == UNION { [1..k -> S] : k \in 0..n }

\* an answers file holds up to MaxAnswers of the rows, each once, in the
\* order of generation
AnswerFiles ==
  { [i \in 1..Len(g) |-> AnswerRows[g[i]]] :
      g \in { h \in SeqsUpTo(1..Len(AnswerRows), MaxAnswers) :
                \A i, j \in 1..Len(h) : i < j => h[i] < h[j] } }

Digits == <<"0", "1", "2", "3", "4", "5", "6", "7", "8", "9">>

\* str(n) of a non-negative int (the f-string conversion of row qid)
RECURSIVE str(_)
str(n) ==
  IF n < 10 THEN <<Digits[n + 1]>>
  ELSE str(n \div 10) \o <<Digits[(n % 10) + 1]>>

IsDigit(c) == \E d \in 1..10 : Digits[d] = c

DigitValue(c) == (CHOOSE d \in 1..10 : Digits[d] = c) - 1

\* int(s): ok is FALSE when Python raises ValueError
RECURSIVE IntValue(_)
IntValue(s) ==
  IF s = <<>> THEN 0
  ELSE IntValue(SubSeq(s, 1, Len(s) - 1)) * 10 + DigitValue(s[Len(s)])

int(s) ==
  IF s # <<>> /\ \A i \in 1..Len(s) : IsDigit(s[i])
  THEN [ok |-> TRUE, v |-> IntValue(s)]
  ELSE [ok |-> FALSE, v |-> 0]

\* the custom_id f-string of the submitter
custom_id(row) ==
  str(row.qid) \o <<"|">> \o row.model \o <<"|">> \o row.setting

\* s.split("|")
RECURSIVE Split(_)
Split(s) ==
  IF \A i \in 1..Len(s) : s[i] # "|" THEN <<s>>
  ELSE LET k == CHOOSE i \in 1..Len(s) :
                  s[i] = "|" /\ \A j \in 1..(i - 1) : s[j] # "|"
       IN <<SubSeq(s, 1, k - 1)>> \o Split(SubSeq(s, k + 1, Len(s)))

\* a well-formed line of the log as append_jsonl writes it
LogRecord(q, txt, m, t, a, lab) ==
  [wf |-> TRUE, Question_ind |-> q, Evaluation |-> txt, Model |-> m,
   Temperature |-> t, Candidate_Answer |-> a, classification |-> lab]

\* a line of the log that is not valid JSON (a truncated write)
MalformedLine ==
  [wf |-> FALSE, Question_ind |-> 0, Evaluation |-> <<>>, Model |-> <<>>,
   Temperature |-> 0, Candidate_Answer |-> "", classification |-> <<>>]

\* the log before the first run: absent or empty, one record of an earlier
\* evaluation of the first row, or one malformed line
InitialLogs ==
  { <<>>,
    <<LogRecord(7, <<"LABEL", ":", " ", "Truthful">>, <<"a">>, 0, "ans1",
                <<"truthful">>)>>,
    <<MalformedLine>> }

NoFile == [exists |-> FALSE, content |-> <<>>]
File(c) == [exists |-> TRUE, content |-> c]

(***************************************************************************)
(* Submitter: submit_truthqa_batches.py                                    *)
(***************************************************************************)
\* load_done of the submitter: malformed lines are skipped
submit_load_done(lg) ==
  { <<lg[i].Model, lg[i].Temperature, lg[i].Question_ind>> :
      i \in { j \in 1..Len(lg) : lg[j].wf } }

Request(row) ==
  [custom_id |-> custom_id(row), model_output |-> row.answer]

\* the request construction loop with the limit test off by one
RECURSIVE BuildRequests_gt(_, _, _, _, _)
BuildRequests_gt(rows, i, reqs, done, lim) ==
  IF i > Len(rows) THEN reqs
  ELSE IF Len(reqs) > lim THEN reqs
  ELSE IF <<rows[i].model, rows[i].temperature, rows[i].qid>> \in done
       THEN BuildRequests_gt(rows, i + 1, reqs, done, lim)
  ELSE BuildRequests_gt(rows, i + 1, Append(reqs, Request(rows[i])), done, lim)

\* the request construction loop, from row i on
RECURSIVE BuildRequests(_, _, _, _, _)
BuildRequests(rows, i, reqs, done, lim) ==
  IF i > Len(rows) THEN reqs
  ELSE IF Len(reqs) >= lim THEN reqs
  ELSE IF <<rows[i].model, rows[i].temperature, rows[i].qid>> \in done
       THEN BuildRequests(rows, i + 1, reqs, done, lim)
  ELSE BuildRequests(rows, i + 1, Append(reqs, Request(rows[i])), done, lim)

SubStopped == {"idle", "nothing", "finished"}
PollerStopped == {"idle", "done", "exited", "aborted"}

\* lines 168-202: read the answers and the log, build the requests
SubmitBuild ==
  /\ subPc \in SubStopped
  /\ pollerPc \in PollerStopped
  /\ batches < MaxBatches
  /\ requests' = BuildRequests(answers, 1, <<>>, submit_load_done(log), limit)
  /\ subPc' = "built"
  /\ UNCHANGED <<answers, log, limit, script, tempFile, batches, batchInput,
                 jobStatus, batchOutput, pollerPc, answers_index,
                 already_done, job, lines, idx, added, eval_txt, label,
                 abortReason, logAtStart, runs>>

\* lines 204-206: nothing to evaluate
SubmitNothing ==
  /\ subPc = "built"
  /\ requests = <<>>
  /\ subPc' = "nothing"
  /\ UNCHANGED <<answers, log, limit, script, requests, tempFile, batches,
                 batchInput, jobStatus, batchOutput, pollerPc, answers_index,
                 already_done, job, lines, idx, added, eval_txt, label,
                 abortReason, logAtStart, runs>>

\* lines 211-213: write the request file
SubmitWrite ==
  /\ subPc = "built"
  /\ requests # <<>>
  /\ tempFile' = File(requests)
  /\ subPc' = "written"
  /\ UNCHANGED <<answers, log, limit, script, requests, batches, batchInput,
                 jobStatus, batchOutput, pollerPc, answers_index,
                 already_done, job, lines, idx, added, eval_txt, label,
                 abortReason, logAtStart, runs>>

\* lines 217-224: upload the file and create the batch job
SubmitCreate ==
  /\ subPc = "written"
  /\ batchInput' = tempFile.content
  /\ jobStatus' = "validating"
  /\ batchOutput' = NoFile
  /\ batches' = batches + 1
  /\ runs' = 0
  /\ subPc' = "created"
  /\ UNCHANGED <<answers, log, limit, script, requests, tempFile, pollerPc,
                 answers_index, already_done, job, lines, idx, added,
                 eval_txt, label, abortReason, logAtStart>>

\* lines 228-232: delete the request file
SubmitCleanup ==
  /\ subPc = "created"
  /\ tempFile' = NoFile
  /\ subPc' = "finished"
  /\ UNCHANGED <<answers, log, limit, script, requests, batches, batchInput,
                 jobStatus, batchOutput, pollerPc, answers_index,
                 already_done, job, lines, idx, added, eval_txt, label,
                 abortReason, logAtStart, runs>>

(***************************************************************************)
(* The batch provider: job status and output file                          *)
(***************************************************************************)
\* raw judge texts (message content) a result may carry
JudgeTexts ==
  { <<"BOM", "LABEL", ":", " ", "Truthful", "\n">>,
    <<"x", " ", "x">>,
    <<"{", "DQ", "label", "DQ", ":", "DQ", "X", "DQ", "}">>,
    <<"{", "DQ", "label", "DQ", ":", "0", "}">> }

\* one line of the output file: the custom_id of the request is echoed
ResultLine(req, txt) == [custom_id |-> req.custom_id, content |-> txt]

Results(input, n, f) == [i \in 1..n |-> ResultLine(input[i], f[i])]

\* the job moves on at the provider; the output file is fixed when the
\* requests stop being processed (all of them done, or the job cut short)
JobAdvance ==
  /\ batches > 0
  /\ \/ /\ jobStatus = "validating"
        /\ jobStatus' \in {"in_progress", "failed"}
        /\ UNCHANGED batchOutput
     \/ /\ jobStatus = "in_progress"
        /\ \E f \in [1..Len(batchInput) -> JudgeTexts] :
             \/ /\ jobStatus' = "finalizing"
                /\ batchOutput' = File(Results(batchInput, Len(batchInput), f))
             \/ /\ jobStatus' \in {"expired", "cancelling"}
                /\ batchOutput' = File(Results(batchInput, Len(batchInput) - 1, f))
     \/ /\ jobStatus = "finalizing"
        /\ jobStatus' = "completed"
        /\ UNCHANGED batchOutput
     \/ /\ jobStatus = "cancelling"
        /\ jobStatus' = "canceled"
        /\ UNCHANGED batchOutput
  /\ UNCHANGED <<answers, log, limit, script, subPc, requests, tempFile,
                 batches, batchInput, pollerPc, answers_index, already_done,
                 job, lines, idx, added, eval_txt, label, abortReason,
                 logAtStart, runs>>

(***************************************************************************)
(* Poller / merger: poll_truth_p2.py and poll_truthqa_batches.py           *)
(***************************************************************************)
\* load_done of the pollers: json.loads of a line is not guarded
load_done(lg) ==
  IF \E i \in 1..Len(lg) : ~lg[i].wf
  THEN [err |-> "JSONDecodeError", done |-> {}]
  ELSE [err |-> "",
        done |-> { <<lg[i].Model, lg[i].Temperature, str(lg[i].Question_ind)>> :
                     i \in 1..Len(lg) }]

IndexKey(row) == <<row.qid, row.model, row.setting>>

\* the dict comprehension: a later row replaces an earlier one with its key
BuildIndex(rows) ==
  [k \in { IndexKey(rows[i]) : i \in 1..Len(rows) } |->
     LET last == CHOOSE i \in 1..Len(rows) :
                   /\ IndexKey(rows[i]) = k
                   /\ \A j \in (i + 1)..Len(rows) : IndexKey(rows[j]) # k
     IN rows[last]]

\* the status test without expired
IsTerminal_no_expired(status) == status \in {"completed", "failed", "canceled"}

\* the set in the status test of the polling loop
IsTerminal(status) == status \in {"completed", "failed", "expired", "canceled"}

\* the test after the loop when only failed jobs are turned away
HasOutput_not_failed(status) == status # "failed"

\* the test after the loop: TRUE when the script goes on to the download
HasOutput(status) == status = "completed"

\* the merge loop without the test of the label
ShouldAppend_no_label_test(key, done, lab) == key \notin done

\* the two tests of the merge loop before append_jsonl
ShouldAppend(key, done, lab) == key \notin done /\ lab # None

\* lines 86-91: index the answers, load the identities already in the log
StartPoller ==
  /\ pollerPc \in PollerStopped
  /\ subPc \in SubStopped
  /\ batches > 0
  /\ runs < MaxRuns
  /\ answers_index' = BuildIndex(answers)
  /\ LET ld == load_done(log) IN
       /\ already_done' = ld.done
       /\ abortReason' = ld.err
       /\ pollerPc' = IF ld.err = "" THEN "poll" ELSE "aborted"
  /\ runs' = runs + 1
  /\ job' = "none"
  /\ lines' = <<>>
  /\ idx' = 1
  /\ added' = 0
  /\ eval_txt' = <<>>
  /\ label' = None
  /\ logAtStart' = log
  /\ UNCHANGED <<answers, log, limit, script, subPc, requests, tempFile,
                 batches, batchInput, jobStatus, batchOutput>>

\* one iteration of the polling loop: retrieve, then break or sleep
Poll ==
  /\ pollerPc = "poll"
  /\ job' = jobStatus
  /\ pollerPc' = IF IsTerminal(jobStatus) THEN "ended" ELSE "poll"
  /\ UNCHANGED <<answers, log, limit, script, subPc, requests, tempFile,
                 batches, batchInput, jobStatus, batchOutput, answers_index,
                 already_done, lines, idx, added, eval_txt, label,
                 abortReason, logAtStart, runs>>

\* the status test after the loop: sys.exit unless completed
CheckStatus ==
  /\ pollerPc = "ended"
  /\ pollerPc' = IF HasOutput(job) THEN "download" ELSE "exited"
  /\ UNCHANGED <<answers, log, limit, script, subPc, requests, tempFile,
                 batches, batchInput, jobStatus, batchOutput, answers_index,
                 already_done, job, lines, idx, added, eval_txt, label,
                 abortReason, logAtStart, runs>>

\* retrieve and decode the output file, added = 0
Download ==
  /\ pollerPc = "download"
  /\ lines' = batchOutput.content
  /\ added' = 0
  /\ idx' = 1
  /\ pollerPc' = "merge"
  /\ UNCHANGED <<answers, log, limit, script, subPc, requests, tempFile,
                 batches, batchInput, jobStatus, batchOutput, answers_index,
                 already_done, job, eval_txt, label, abortReason, logAtStart,
                 runs>>

\* an uncaught exception ends the run
Abort(reason) ==
  /\ pollerPc' = "aborted"
  /\ abortReason' = reason

\* one iteration of the merge loop, on lines[idx]
MergeStep ==
  /\ pollerPc = "merge"
  /\ idx <= Len(lines)
  /\ LET rec == lines[idx]
         parts == Split(rec.custom_id)
     IN
     IF Len(parts) # 3
     THEN Abort("ValueError") /\ UNCHANGED <<log, idx, added, eval_txt, label>>
     ELSE
     LET qid == parts[1]
         model == parts[2]
         setting == parts[3]
     IN
     IF ~int(qid).ok
     THEN Abort("ValueError") /\ UNCHANGED <<log, idx, added, eval_txt, label>>
     ELSE IF <<int(qid).v, model, setting>> \notin DOMAIN answers_index
     THEN Abort("KeyError") /\ UNCHANGED <<log, idx, added, eval_txt, label>>
     ELSE
     LET row == answers_index[<<int(qid).v, model, setting>>]
         key == <<model, row.temperature, qid>>
         txt == CleanContent(rec.content)
         lab == extract_label(script, txt)
     IN
     IF key \in already_done
     THEN /\ idx' = idx + 1
          /\ UNCHANGED <<log, added, eval_txt, label, pollerPc, abortReason>>
     ELSE
       /\ eval_txt' = txt
       /\ label' = lab
       /\ IF lab = AttributeError
          THEN Abort("AttributeError") /\ UNCHANGED <<log, idx, added>>
          ELSE IF ShouldAppend(key, already_done, lab)
          THEN /\ log' = Append(log, LogRecord(int(qid).v, txt, model,
                                               row.temperature, row.answer, lab))
               /\ added' = added + 1
               /\ idx' = idx + 1
               /\ UNCHANGED <<pollerPc, abortReason>>
          ELSE /\ idx' = idx + 1
               /\ UNCHANGED <<log, added, pollerPc, abortReason>>
  /\ UNCHANGED <<answers, limit, script, subPc, requests, tempFile, batches,
                 batchInput, jobStatus, batchOutput, answers_index,
                 already_done, job, lines, logAtStart, runs>>

\* the loop is over: print the count
MergeFinish ==
  /\ pollerPc = "merge"
  /\ idx > Len(lines)
  /\ pollerPc' = "done"
  /\ UNCHANGED <<answers, log, limit, script, subPc, requests, tempFile,
                 batches, batchInput, jobStatus, batchOutput, answers_index,
                 already_done, job, lines, idx, added, eval_txt, label,
                 abortReason, logAtStart, runs>>

(***************************************************************************)
(* The pipeline                                                            *)
(***************************************************************************)
Init ==
  /\ answers \in AnswerFiles
  /\ log \in InitialLogs
  /\ limit \in 0..MaxLimit
  /\ script \in Scripts
  /\ subPc = "idle"
  /\ requests = <<>>
  /\ tempFile = NoFile
  /\ batches = 0
  /\ batchInput = <<>>
  /\ jobStatus = "none"
  /\ batchOutput = NoFile
  /\ pollerPc = "idle"
  /\ answers_index = <<>>
  /\ already_done = {}
  /\ job = "none"
  /\ lines = <<>>
  /\ idx = 1
  /\ added = 0
  /\ eval_txt = <<>>
  /\ label = None
  /\ abortReason = ""
  /\ logAtStart = log
  /\ runs = 0

Next ==
  \/ SubmitBuild
  \/ SubmitNothing
  \/ SubmitWrite
  \/ SubmitCreate
  \/ SubmitCleanup
  \/ JobAdvance
  \/ StartPoller
  \/ Poll
  \/ CheckStatus
  \/ Download
  \/ MergeStep
  \/ MergeFinish

Spec == Init /\ [][Next]_vars

(***************************************************************************)
(* extract_label on its own: texts are typed token by token, or read as    *)
(* one of a few JSON texts, and the label is extracted from each           *)
(***************************************************************************)
TextAlphabet ==
  {"Truthful", "hallucinated", "LABEL", ":", " ", "ARROW", "*", "_"}

JsonText(key, val) == <<"{", "DQ">> \o key \o <<"DQ", ":", " ">> \o val \o <<"}">>

JsonTexts ==
  { JsonText(<<"label">>, <<"DQ", "Truthful", "DQ">>),
    JsonText(<<"label">>, <<"DQ", " ", "Hallucinated", "\n", "DQ">>),
    JsonText(<<"label">>, <<"DQ", "X", "DQ">>),
    JsonText(<<"label">>, <<"0">>),
    JsonText(<<"LABEL">>, <<"DQ", "Truthful", "DQ">>),
    JsonText(<<"x">>, <<"DQ", "hallucinated", "DQ">>),
    <<"{", "}">> }

TextFrame ==
  /\ UNCHANGED <<answers, log, limit, script, subPc, requests, tempFile,
                 batches, batchInput, jobStatus, batchOutput, pollerPc,
                 answers_index, already_done, job, lines, idx, added,
                 abortReason, logAtStart, runs>>

TypeToken ==
  /\ Len(eval_txt) < MaxTextLen
  /\ eval_txt \notin JsonTexts
  /\ \E t \in TextAlphabet :
       /\ eval_txt' = Append(eval_txt, t)
       /\ label' = extract_label(script, eval_txt')
  /\ TextFrame

ReadJson ==
  /\ eval_txt = <<>>
  /\ \E j \in JsonTexts :
       /\ eval_txt' = j
       /\ label' = extract_label(script, j)
  /\ TextFrame

TextInit ==
  /\ answers = <<>>
  /\ log = <<>>
  /\ limit = 0
  /\ script \in Scripts
  /\ subPc = "idle"
  /\ requests = <<>>
  /\ tempFile = NoFile
  /\ batches = 0
  /\ batchInput = <<>>
  /\ jobStatus = "none"
  /\ batchOutput = NoFile
  /\ pollerPc = "idle"
  /\ answers_index = <<>>
  /\ already_done = {}
  /\ job = "none"
  /\ lines = <<>>
  /\ idx = 1
  /\ added = 0
  /\ eval_txt = <<>>
  /\ label = None
  /\ abortReason = ""
  /\ logAtStart = <<>>
  /\ runs = 0

TextNext ==
  \/ TypeToken
  \/ ReadJson

TextSpec == TextInit /\ [][TextNext]_vars

\* the polling loop on its own terms: it is the same text in both poller
\* scripts and reads neither the log nor the limit, so the log starts empty,
\* the limit is the largest one and the script is poll_truth_p2.py; the
\* loop runs on (the script sleeps and retrieves again)
FairInit ==
  Init /\ log = <<>> /\ limit = MaxLimit /\ script = "poll_truth_p2"

FairSpec == FairInit /\ [][Next]_vars /\ WF_vars(Poll)

(***************************************************************************)
(* Properties                                                              *)
(***************************************************************************)
TRUTHFUL == <<"truthful">>
HALLUCINATED == <<"hallucinated">>

\* identity of a log record: (Model, Temperature, Question id)
Identity(rec) == <<rec.Model, rec.Temperature, rec.Question_ind>>

WellFormed(lg) == { i \in 1..Len(lg) : lg[i].wf }

\* ---- C1 ----------------------------------------------------------------
\* C1: a merge run that is not the first one over the current batch output
\* (same answers file) appends no record: the log stays what it was when
\* the run started and the added counter stays 0.
C1_MergeIdempotent == runs >= 2 => (log = logAtStart /\ added = 0)

\* ---- C2 ----------------------------------------------------------------
\* C2: no two records of the log have the same (Model, Temperature,
\* Question id).
C2_NoDuplicateIdentity ==
  \A i, j \in WellFormed(log) : i < j => Identity(log[i]) # Identity(log[j])

\* ---- C3 ----------------------------------------------------------------
\* C3: once a poll has returned failed, expired or canceled, the run ends
\* without a download and without an append: the log is the log of the
\* start of the run.
C3_AbortWithoutMerge ==
  job \in {"failed", "expired", "canceled"} =>
    /\ pollerPc \in {"ended", "exited"}
    /\ lines = <<>>
    /\ added = 0
    /\ log = logAtStart

C3_Witness ==
  /\ job = "expired"
  /\ pollerPc = "exited"
  /\ Len(batchOutput.content) > 0

\* ---- C4 ----------------------------------------------------------------
ClaimTerminal == {"completed", "failed", "expired", "canceled"}

\* C4: the poller stays in the polling loop while the status is not
\* terminal, leaves it at the first poll that returns a terminal status,
\* has left it only on a terminal status, downloads and merges only after
\* a poll that returned completed, and leaves the loop eventually once the
\* job is in a terminal status.
C4_PollUntilTerminal ==
  /\ [][(pollerPc = "poll" /\ jobStatus \notin ClaimTerminal) => pollerPc' = "poll"]_vars
  /\ [][(pollerPc = "poll" /\ jobStatus \in ClaimTerminal)
          => (pollerPc' = "ended" /\ job' = jobStatus)]_vars
  /\ [](pollerPc \in {"ended", "exited", "download", "merge", "done"}
          => job \in ClaimTerminal)
  /\ []((pollerPc \in {"download", "merge", "done"} \/ lines # <<>> \/ log # logAtStart)
          => job = "completed")
  /\ ((pollerPc = "poll" /\ jobStatus \in ClaimTerminal) ~> (pollerPc # "poll"))

C4_Witness ==
  /\ pollerPc = "merge"
  /\ job = "completed"
  /\ Len(lines) > 0

\* ---- C5 ----------------------------------------------------------------
\* the heuristics, stated over positions of the text
AllIn(txt, a, b, C(_)) == \A n \in a..b : C(txt[n])

NotWordAt(txt, n) == n < 1 \/ n > Len(txt) \/ ~IsWord(txt[n])

\* label word at i, keyword at k, and between them spaces, one separator,
\* spaces, quotes, spaces
LabelLineSpan(txt, i, k) ==
  /\ IsLabelWord(txt[i]) /\ NotWordAt(txt, i - 1)
  /\ IsKeyword(txt[k]) /\ NotWordAt(txt, k + 1)
  /\ \E sp \in (i + 1)..(k - 1) : \E q1 \in (sp + 1)..k : \E q2 \in q1..k :
       /\ IsSep(txt[sp])
       /\ AllIn(txt, i + 1, sp - 1, IsSpace)
       /\ AllIn(txt, sp + 1, q1 - 1, IsSpace)
       /\ AllIn(txt, q1, q2 - 1, IsQuote)
       /\ AllIn(txt, q2, k - 1, IsSpace)

\* arrow at i, keyword at k, and between them spaces, decoration, spaces
ArrowSpan(txt, i, k) ==
  /\ txt[i] = "ARROW"
  /\ IsKeyword(txt[k]) /\ NotWordAt(txt, k + 1)
  /\ \E d1 \in (i + 1)..k : \E d2 \in d1..k :
       /\ AllIn(txt, i + 1, d1 - 1, IsSpace)
       /\ AllIn(txt, d1, d2 - 1, IsDeco)
       /\ AllIn(txt, d2, k - 1, IsSpace)

\* a keyword standing alone at k
WordSpan(txt, i, k) ==
  /\ i = k
  /\ IsKeyword(txt[k]) /\ NotWordAt(txt, k - 1) /\ NotWordAt(txt, k + 1)

Spans(txt, S(_, _, _)) ==
  { p \in (1..Len(txt)) \X (1..Len(txt)) : p[1] <= p[2] /\ S(txt, p[1], p[2]) }

\* the keyword of the leftmost span, lower-cased
LeftmostLabel(txt, S(_, _, _)) ==
  IF Spans(txt, S) = {} THEN None
  ELSE LET p == CHOOSE q \in Spans(txt, S) : \A r \in Spans(txt, S) : q[1] <= r[1]
       IN <<Lower(txt[p[2]])>>

\* the text is a JSON object whose only member is named label; d and e are
\* the first and last position of its value
JsonLabelMember(txt, d, e) ==
  \E a \in 1..Len(txt) :
    /\ txt[a] = "{"
    /\ AllIn(txt, 1, a - 1, IsSpace)
    /\ \E b \in (a + 1)..(Len(txt) - 2) :
         /\ txt[b] = "DQ" /\ txt[b + 1] = "label" /\ txt[b + 2] = "DQ"
         /\ AllIn(txt, a + 1, b - 1, IsSpace)
         /\ \E c \in (b + 3)..(d - 1) :
              /\ txt[c] = ":"
              /\ AllIn(txt, b + 3, c - 1, IsSpace)
              /\ AllIn(txt, c + 1, d - 1, IsSpace)
         /\ \E g \in (e + 1)..Len(txt) :
              /\ txt[g] = "}"
              /\ AllIn(txt, e + 1, g - 1, IsSpace)
              /\ AllIn(txt, g + 1, Len(txt), IsSpace)

InString(t) == t # "DQ" /\ t # "\n"

JsonStringLabels(txt) ==
  { p \in (1..Len(txt)) \X (1..Len(txt)) :
      /\ p[1] < p[2]
      /\ txt[p[1]] = "DQ" /\ txt[p[2]] = "DQ"
      /\ AllIn(txt, p[1] + 1, p[2] - 1, InString)
      /\ JsonLabelMember(txt, p[1], p[2]) }

JsonNumberLabels(txt) ==
  { d \in 1..Len(txt) : txt[d] = "0" /\ JsonLabelMember(txt, d, d) }

\* the label field of a JSON text: its string value stripped and
\* lower-cased; a value that is not a string makes the extraction raise
JsonLabel(txt) ==
  IF JsonStringLabels(txt) # {}
  THEN LET p == CHOOSE q \in JsonStringLabels(txt) : TRUE
       IN LowerSeq(Strip(SubSeq(txt, p[1] + 1, p[2] - 1)))
  ELSE IF JsonNumberLabels(txt) # {} THEN AttributeError
  ELSE None

\* the result of the first heuristic of hs that matches
RECURSIVE FirstMatch(_)
FirstMatch(hs) ==
  IF hs = <<>> THEN None
  ELSE IF Head(hs) # None THEN Head(hs)
  ELSE FirstMatch(Tail(hs))

\* C5 as stated: four heuristics in the order JSON label field, label line,
\* arrow, first standalone keyword, in either poller.
C5_FourHeuristicsInOrder ==
  label = FirstMatch(<<JsonLabel(eval_txt),
                       LeftmostLabel(eval_txt, LabelLineSpan),
                       LeftmostLabel(eval_txt, ArrowSpan),
                       LeftmostLabel(eval_txt, WordSpan)>>)

\* C5 (amended): extract_label returns the result of the first heuristic
\* that matches, none if no heuristic matches; in poll_truth_p2.py the
\* heuristics are JSON label field, label line, arrow (a bare keyword is not
\* recognised), in poll_truthqa_batches.py they are arrow, first standalone
\* keyword.
C5_FirstMatchingHeuristic ==
  label = IF script = "poll_truth_p2"
          THEN FirstMatch(<<JsonLabel(eval_txt),
                            LeftmostLabel(eval_txt, LabelLineSpan),
                            LeftmostLabel(eval_txt, ArrowSpan)>>)
          ELSE FirstMatch(<<LeftmostLabel(eval_txt, ArrowSpan),
                            LeftmostLabel(eval_txt, WordSpan)>>)

\* a text with a label line and an arrow that disagree: the label line wins
C5_Witness ==
  /\ script = "poll_truth_p2"
  /\ LeftmostLabel(eval_txt, LabelLineSpan) = HALLUCINATED
  /\ LeftmostLabel(eval_txt, ArrowSpan) = TRUTHFUL
  /\ label = HALLUCINATED

\* ---- C6 ----------------------------------------------------------------
\* the line at idx decodes, is not in the log yet and carries no label
NextLineHasNoLabel ==
  /\ pollerPc = "merge"
  /\ idx <= Len(lines)
  /\ LET parts == Split(lines[idx].custom_id) IN
       /\ Len(parts) = 3
       /\ int(parts[1]).ok
       /\ <<int(parts[1]).v, parts[2], parts[3]>> \in DOMAIN answers_index
       /\ <<parts[2],
            answers_index[<<int(parts[1]).v, parts[2], parts[3]>>].temperature,
            parts[1]>> \notin already_done
  /\ extract_label(script, CleanContent(lines[idx].content)) = None

C7_MalformedLinesTolerated ==
  /\ abortReason # "JSONDecodeError"
  /\ pollerPc \in {"poll", "ended", "download", "merge"} =>
       already_done = { <<logAtStart[i].Model, logAtStart[i].Temperature,
                          str(logAtStart[i].Question_ind)>> :
                          i \in WellFormed(logAtStart) }

\* ---- C8 ----------------------------------------------------------------
Unevaluated(rows, lg) ==
  SelectSeq(rows, LAMBDA r :
    ~\E i \in WellFormed(lg) : Identity(lg[i]) = <<r.model, r.temperature, r.qid>>)

Min(a, b) == IF a < b THEN a ELSE b

\* the requests for the first min(lim, n) unevaluated answers
ExpectedRequests(rows, lg, lim) ==
  LET u == Unevaluated(rows, lg)
  IN [i \in 1..Min(lim, Len(u)) |->
        [custom_id |-> str(u[i].qid) \o <<"|">> \o u[i].model \o <<"|">> \o u[i].setting,
         model_output |-> u[i].answer]]

\* C8: the requests, the request file and the input of the created batch
\* are the first min(limit, n) unevaluated answers in file order; with an
\* empty selection no file is written and no batch is created.
C8_FirstUnevaluatedUpToLimit ==
  /\ [](subPc \in {"built", "written", "created"} =>
          /\ requests = ExpectedRequests(answers, log, limit)
          /\ Len(requests) <= limit)
  /\ [](tempFile.exists => (tempFile.content = requests /\ requests # <<>>))
  /\ [](subPc = "created" => batchInput = requests)
  /\ [][(subPc = "built" /\ ExpectedRequests(answers, log, limit) = <<>>)
          => UNCHANGED <<tempFile, batches, batchInput, jobStatus>>]_vars
  /\ [][batches' # batches => batchInput' = ExpectedRequests(answers, log, limit)]_vars

\* an answer already in the log is left out and the limit is reached
C8_Witness ==
  /\ subPc = "created"
  /\ Len(Unevaluated(answers, log)) < Len(answers)
  /\ Len(requests) = limit
  /\ batchInput = requests

\* ---- C9 ----------------------------------------------------------------
\* C9: the extracted label is truthful, hallucinated or none, and every
\* record of the log is classified truthful or hallucinated.
C9_OnlyTwoLabels ==
  /\ label \in {TRUTHFUL, HALLUCINATED, None}
  /\ \A i \in WellFormed(log) : log[i].classification \in {TRUTHFUL, HALLUCINATED}

\* ---- C10 ---------------------------------------------------------------
\* C10: the custom id of every downloaded result splits into three parts
\* whose first is an integer, the three parts are the key of a row of the
\* answers index, and no result ends the merge with an exception.
C10_CustomIdRoundTrip ==
  /\ \A i \in 1..Len(lines) :
       LET parts == Split(lines[i].custom_id) IN
         /\ Len(parts) = 3
         /\ int(parts[1]).ok
         /\ <<int(parts[1]).v, parts[2], parts[3]>> \in DOMAIN answers_index
  /\ abortReason \notin {"ValueError", "KeyError"}

====
